---- MODULE Spec2Model ----
(***************************************************************************)
(* Step-by-step model of binary_search(arr, target) from                   *)
(* agentflow-cli/examples/assets/agentflow_demo_output/binary_search.py.   *)
(* Indices are the program's zero-based indices; the TLA+ sequence arr     *)
(* holds program element i at position i + 1.                              *)
(***************************************************************************)
EXTENDS Integers, Sequences, FiniteSets

VARIABLES arr, target, left, right, mid, pc, result,
          iters, reads, probes, seen, between

vars == <<arr, target, left, right, mid, pc, result,
          iters, reads, probes, seen, between>>

(* ------------------------------ bounds --------------------------------- *)

MaxLen == 4

MaxVal == 3

RepLen == 2

MaxBetween == 1

(* ------------------------------ inputs --------------------------------- *)

Values == 1..MaxVal

\* targets below, inside, between and above the element values
Targets == 0..(MaxVal + 1)

SeqsUpTo(n) == UNION {[1..k -> Values] : k \in 0..n}

sorted_array == <<2, 3, 4, 10, 40>>

target_element == 10

\* the example call of the script, plus the absent target 5 on the same array
ExampleInputs == {<<sorted_array, target_element>>, <<sorted_array, 5>>}

Inputs == (SeqsUpTo(MaxLen) \X Targets) \cup ExampleInputs

RepInputs == SeqsUpTo(RepLen) \X Targets

(* --------------------------- the function ------------------------------ *)

LeftInit == 0

RightInitLen(a) == Len(a)

RightInit(a) == Len(a) - 1

LoopGuardStrict(l, r) == l < r

LoopGuard(l, r) == l <= r

MidpointThird(l, r) == l + ((r - l) \div 3)

\* // is floor division, as is \div
Midpoint(l, r) == l + ((r - l) \div 2)

\* a list accepts the indices -len .. len-1; any other raises IndexError
IndexOk(a, m) == (0 - Len(a)) <= m /\ m < Len(a)

ElemAt(a, m) == IF m >= 0 THEN a[m + 1] ELSE a[Len(a) + m + 1]

CmpEq(e, t) == e = t

CmpLessReversed(e, t) == e > t

CmpLess(e, t) == e < t

FoundResultOneBased(m) == m + 1

FoundResult(m) == m

NextLeft(m) == m + 1

NextRight(m) == m - 1

NotFoundInsertion == left

NotFoundStale == result

NotFound == -1

NoSeen == [set |-> FALSE, arr |-> <<>>, target |-> 0, result |-> 0]

(* ------------------------------ actions -------------------------------- *)

\* no call is in progress: there is no frame, so no arguments and no locals
NoFrame ==
    /\ arr = <<>>
    /\ target = 0
    /\ left = 0
    /\ right = 0
    /\ mid = 0
    /\ iters = 0
    /\ reads = 0
    /\ probes = <<>>

Init ==
    /\ pc = "idle"
    /\ NoFrame
    /\ result = 0
    /\ seen = NoSeen
    /\ between = 0

\* line 43: the caller calls with arguments in; its variable result keeps
\* its value until the call returns
Invoke(in) ==
    /\ arr' = in[1]
    /\ target' = in[2]
    /\ pc' = "entry"
    /\ UNCHANGED <<left, right, mid, result, iters, reads, probes, seen, between>>

Call ==
    /\ pc = "idle"
    /\ \E in \in Inputs : Invoke(in)

CallRepeat ==
    /\ pc = "idle"
    /\ \E in \in RepInputs : Invoke(in)

\* lines 13-14
Enter ==
    /\ pc = "entry"
    /\ left' = LeftInit
    /\ right' = RightInit(arr)
    /\ pc' = "test"
    /\ UNCHANGED <<arr, target, mid, result, iters, reads, probes, seen, between>>

\* line 17, and line 33 when the condition is false
LoopCond ==
    /\ pc = "test"
    /\ IF LoopGuard(left, right)
         THEN /\ pc' = "body"
              /\ UNCHANGED result
         ELSE /\ pc' = "done"
              /\ result' = NotFound
    /\ UNCHANGED <<arr, target, left, right, mid, iters, reads, probes, seen, between>>

\* line 19
ComputeMid ==
    /\ pc = "body"
    /\ mid' = Midpoint(left, right)
    /\ iters' = iters + 1
    /\ probes' = Append(probes, mid')
    /\ pc' = "cmp"
    /\ UNCHANGED <<arr, target, left, right, result, reads, seen, between>>

\* lines 22-30
Compare ==
    /\ pc = "cmp"
    /\ IF ~IndexOk(arr, mid)
         THEN /\ pc' = "raised"
              /\ UNCHANGED <<left, right, result, reads>>
         ELSE IF CmpEq(ElemAt(arr, mid), target)
           THEN /\ result' = FoundResult(mid)
                /\ pc' = "done"
                /\ reads' = reads + 1
                /\ UNCHANGED <<left, right>>
           ELSE IF CmpLess(ElemAt(arr, mid), target)
             THEN /\ left' = NextLeft(mid)
                  /\ pc' = "test"
                  /\ reads' = reads + 2
                  /\ UNCHANGED <<right, result>>
             ELSE /\ right' = NextRight(mid)
                  /\ pc' = "test"
                  /\ reads' = reads + 2
                  /\ UNCHANGED <<left, result>>
    /\ UNCHANGED <<arr, target, mid, iters, probes, seen, between>>

\* the frame of the finished call is dropped; the caller keeps result
DropFrame ==
    /\ pc = "done"
    /\ pc' = "idle"
    /\ arr' = <<>>
    /\ target' = 0
    /\ left' = 0
    /\ right' = 0
    /\ mid' = 0
    /\ iters' = 0
    /\ reads' = 0
    /\ probes' = <<>>
    /\ UNCHANGED result

Return ==
    /\ DropFrame
    /\ UNCHANGED <<seen, between>>

\* as Return, and the caller either notes this call's arguments and result
\* (once) or counts it as one more call made since the noted one
ReturnNoted ==
    /\ DropFrame
    /\ IF ~seen.set
         THEN /\ \/ seen' = [set |-> TRUE, arr |-> arr, target |-> target,
                             result |-> result]
                 \/ UNCHANGED seen
              /\ UNCHANGED between
         ELSE /\ UNCHANGED seen
              /\ between' = IF between < MaxBetween THEN between + 1 ELSE between

Step == Enter \/ LoopCond \/ ComputeMid \/ Compare

Next == Call \/ Enter \/ LoopCond \/ ComputeMid \/ Compare \/ Return

Spec == Init /\ [][Next]_vars

\* a call runs to completion: the interpreter keeps executing statements
FairSpec == Spec /\ WF_vars(Step)

NextRepeat == CallRepeat \/ Enter \/ LoopCond \/ ComputeMid \/ Compare \/ ReturnNoted

SpecRepeat == Init /\ [][NextRepeat]_vars

(* ------------------------- properties checked -------------------------- *)

L == Len(arr)

IsAscending(a) == \A i \in 1..(Len(a) - 1) : a[i] <= a[i + 1]

Occurrences(a, t) == {j \in 0..(Len(a) - 1) : a[j + 1] = t}

RECURSIVE FloorLog2(_)
FloorLog2(n) == IF n <= 1 THEN 0 ELSE 1 + FloorLog2(n \div 2)

Returned == pc = "done"

\* C1: on an ascending sequence that holds the target, the call returns an
\* index between 0 and len-1 whose element equals the target, never -1.
C1_FindsPresent ==
    (Returned /\ IsAscending(arr) /\ Occurrences(arr, target) # {})
        => /\ result \in 0..(L - 1)
           /\ arr[result + 1] = target
           /\ result # -1

\* the script's example: searching 10 in [2, 3, 4, 10, 40] gives index 3
C1_Witness ==
    Returned /\ arr = sorted_array /\ target = target_element /\ result = 3

\* C2: on an ascending sequence that does not hold the target, the call
\* returns the not-found value -1.
C2_AbsentGivesMinusOne ==
    (Returned /\ IsAscending(arr) /\ Occurrences(arr, target) = {})
        => result = -1

\* searching 5 in [2, 3, 4, 10, 40] gives -1
C2_Witness ==
    Returned /\ arr = sorted_array /\ target = 5 /\ result = -1 /\ iters = 2

\* C3 as stated: on a non-empty ascending sequence, a target equal to the
\* first element gives 0 and a target equal to the last element gives len-1,
\* duplicates included.
C3_Original ==
    (Returned /\ IsAscending(arr) /\ L > 0)
        => /\ (target = arr[1] => result = 0)
           /\ (target = arr[L] => result = L - 1)

\* C3 amended: on a non-empty ascending sequence, a target equal to the first
\* element gives 0 when that value occurs only once, and a target equal to
\* the last element gives len-1 when that value occurs only once.
C3_BoundaryUnique ==
    (Returned /\ IsAscending(arr) /\ L > 0 /\ Cardinality(Occurrences(arr, target)) = 1)
        => /\ (target = arr[1] => result = 0)
           /\ (target = arr[L] => result = L - 1)

\* a last element that occurs once is found at len-1 in a sequence that has
\* a duplicate elsewhere
C3_Witness ==
    /\ Returned /\ IsAscending(arr) /\ L = 4
    /\ arr[1] = arr[2] /\ arr[L] # arr[L - 1]
    /\ target = arr[L] /\ result = L - 1

\* C4: for any sequence, sorted or not, a call ends by returning -1 or an
\* index between 0 and len-1; -1 is not a valid index, and no IndexError
\* is raised.
C4_TwoOutcomes ==
    /\ pc # "raised"
    /\ NotFound \notin 0..(L - 1)
    /\ Returned => (result = NotFound \/ result \in 0..(L - 1))

\* an unsorted sequence on which a present target is missed
C4_Witness ==
    /\ Returned /\ ~IsAscending(arr) /\ Occurrences(arr, target) # {}
    /\ result = -1

\* C5: a call with the same sequence and target as an earlier call returns
\* the same result whatever calls came in between, and a call in progress
\* changes neither the sequence nor the target.
C5_Deterministic ==
    /\ [](Returned /\ seen.set /\ seen.arr = arr /\ seen.target = target
            => result = seen.result)
    /\ [][pc \notin {"idle", "done"} => (arr' = arr /\ target' = target)]_vars

\* the noted call is repeated after other calls with other arguments
C5_Witness ==
    /\ Returned /\ seen.set /\ seen.arr = arr /\ seen.target = target
    /\ between = MaxBetween /\ L = RepLen /\ result = seen.result

\* C6: every call returns; a pass of the loop body that does not return
\* leaves an interval of at most half the previous size, rounded down; and
\* the body runs at most floor(log2(n)) + 1 times for n >= 1.
C6_Terminates ==
    /\ [](iters <= (IF L >= 1 THEN FloorLog2(L) + 1 ELSE 0))
    /\ [][(pc = "cmp" /\ pc' = "test")
            => (right' - left' + 1) <= ((right - left + 1) \div 2)]_vars
    /\ (pc = "entry" ~> Returned)

\* an unsorted sequence of four elements searched to exhaustion in
\* floor(log2(4)) + 1 = 3 passes
C6_Witness ==
    Returned /\ ~IsAscending(arr) /\ L = 4 /\ iters = 3 /\ result = -1

\* C7: with the target present more than once in an ascending sequence, the
\* index returned is the first midpoint probed whose element equals the
\* target: the last probe made, no earlier probe having hit the target.
C7_FirstProbeHit ==
    (Returned /\ IsAscending(arr) /\ Cardinality(Occurrences(arr, target)) > 1)
        => /\ probes # <<>>
           /\ result = probes[Len(probes)]
           /\ \A i \in 1..(Len(probes) - 1) : arr[probes[i] + 1] # target
           /\ probes[1] = (L - 1) \div 2

\* the index returned is neither the first nor the last occurrence
C7_Witness ==
    /\ Returned /\ IsAscending(arr)
    /\ \E lo, hi \in Occurrences(arr, target) : lo < result /\ result < hi

\* C8: on the empty sequence the call sets left = 0 and right = -1, never
\* runs the loop body, reads no element, and returns -1.
C8_Empty ==
    (pc # "idle" /\ L = 0) =>
        /\ pc \in {"entry", "test", "done"}
        /\ iters = 0 /\ reads = 0 /\ probes = <<>>
        /\ (pc = "test" => left = 0 /\ right = -1)
        /\ (Returned => result = -1 /\ left = 0 /\ right = -1)

C8_Witness ==
    Returned /\ L = 0 /\ result = -1 /\ target = 2

\* C9: on a one-element sequence the loop body runs exactly once, probing
\* index 0; the result is 0 when the target equals the element, else -1.
C9_Single ==
    (Returned /\ L = 1)
        => /\ iters = 1
           /\ probes = <<0>>
           /\ result = (IF target = arr[1] THEN 0 ELSE -1)

C9_Witness ==
    /\ Returned /\ L = 1 /\ iters = 1
    /\ target < arr[1] /\ result = -1

\* C10: for an ascending sequence, whenever the loop condition is evaluated,
\* 0 <= left <= right + 1 <= len, every element left of left is below the
\* target and every element right of right is above it; in the loop body
\* left <= mid <= right, the read is in bounds, and every occurrence of the
\* target lies within left..right.
C10_LoopInvariant ==
    IsAscending(arr) =>
        /\ (pc = "test" =>
              /\ 0 <= left /\ left <= right + 1 /\ right + 1 <= L
              /\ \A j \in 0..(L - 1) : j < left => arr[j + 1] < target
              /\ \A j \in 0..(L - 1) : j > right => arr[j + 1] > target
              /\ \A j \in Occurrences(arr, target) : left <= j /\ j <= right)
        /\ (pc = "cmp" =>
              /\ left <= mid /\ mid <= right
              /\ 0 <= mid /\ mid < L
              /\ \A j \in Occurrences(arr, target) : left <= j /\ j <= right)

\* the lower bound has moved inward twice and the target is still inside
C10_Witness ==
    /\ pc = "cmp" /\ IsAscending(arr) /\ iters = 3
    /\ 0 < left /\ arr[mid + 1] = target

====
